---- MODULE Spec2Model ----
(***************************************************************************)
(* rssant feed library: FeedParser (src/rssant_feedlib/parser.py) with the *)
(* FeedChecksum it filters stories through, and the feed reader whose      *)
(* behaviour src/tests/feedlib/test_reader.py pins down.                   *)
(*                                                                         *)
(* Strings are abstracted to what the code looks at:                       *)
(*   - an ident is base . pad^(len-1): [base, len]; ident[:n] keeps base   *)
(*     and cuts len;                                                       *)
(*   - HTML-bearing text is [id, text, safe, unsafe, math]: the lengths of *)
(*     its plain text, of its safe markup and of its unsafe markup;        *)
(*   - a URL is "abs" (valid absolute), "rel" (relative), "bad" or blank;  *)
(*   - a date is a datetime ("dt"), an unparsable value ("baddt") or None. *)
(***************************************************************************)
EXTENDS Integers, Sequences, FiniteSets, TLC

VARIABLES
    heap,       \* FeedChecksum objects, by object id
    parsers,    \* FeedParser objects, in construction order
    ops,        \* number of constructor and parse calls made so far
    last,       \* the latest parse call: its input and what it did
    rd,         \* the reader's current read() call
    net         \* requests put on the wire by the reader, in order

vars == <<heap, parsers, ops, last, rd, net>>

----------------------------------------------------------------------------
\* Bounds of the model

MaxOps == 4
MaxStorys == 2
MaxFieldOps == 2

\* Program constants

IdentMaxLen == 200
TitleMaxLen == 200
VersionMaxLen == 200
DescriptionMaxLen == 300
SummaryMaxLen == 300
AuthorNameMaxLen == 100
ContentCeiling == 1024 * 1024
\* validr: the length a T.str accepts when the schema names no maxlen
StrDefaultMaxLen == 1024 * 1024

NoneV == "None"
Absent == <<>>

Min(a, b) == IF a < b THEN a ELSE b

----------------------------------------------------------------------------
\* Values

Html(id, text, safe, unsafe, math) ==
    [id |-> id, text |-> text, safe |-> safe, unsafe |-> unsafe, math |-> math]

EmptyStr == Html(0, 0, 0, 0, FALSE)

\* None in a field that holds HTML-bearing text
NoneHtml == Html(0 - 1, 0, 0, 0, FALSE)

StrLen(h) == h.text + h.safe + h.unsafe

Ident(base, len) == [base |-> base, len |-> len]

\* ident[:n]
IdentSlice(ident, n) == [ident EXCEPT !.len = Min(ident.len, n)]

\* text[:n] of a plain text
TextSlice(h, n) == [h EXCEPT !.text = Min(h.text, n)]

----------------------------------------------------------------------------
\* rssant_feedlib.processor and rssant_api.helper (by their contracts)

\* story_html_to_text: markup stripped, plain text kept; None gives ''
story_html_to_text(h) ==
    IF h = NoneHtml THEN EmptyStr ELSE [h EXCEPT !.safe = 0, !.unsafe = 0]

\* story_html_clean: unsafe markup stripped; None gives ''
story_html_clean(h) ==
    IF h = NoneHtml THEN EmptyStr ELSE [h EXCEPT !.unsafe = 0]

\* process_story_links: relative links rewritten against link
process_story_links(h, link) == [html |-> h, base |-> link]

story_has_mathjax(c) == c.html.math

\* normlize_url: blank stays blank, a relative URL is joined to a valid base
normlize_url(u, base) ==
    IF u \in {NoneV, ""} THEN ""
    ELSE IF u = "rel" /\ base = "abs" THEN "abs"
    ELSE u

\* validate_url: the URL, or Invalid
url_is_valid(u) == u = "abs"

\* shorten(text, width): at most width characters
shorten(h, width) == TextSlice(h, width)

----------------------------------------------------------------------------
\* FeedChecksum (rssant_feedlib.feed_checksum, by its contract)

\* the hash of a content string: equal exactly for equal strings
content_hash(h) == <<"sum", h>>

\* a mapping ident -> value holds the idents it has seen
Lookup(m, ident) == IF ident \in DOMAIN m THEN m[ident] ELSE Absent

Store(m, ident, v) ==
    [i \in DOMAIN m \cup {ident} |-> IF i = ident THEN v ELSE m[i]]

checksum_new == <<>>

checksum_copy(m) == m

\* update(ident, content): whether new or changed, and the mapping after
checksum_update(m, ident, content) ==
    LET h == content_hash(content)
    IN  IF Lookup(m, ident) = h
        THEN [changed |-> FALSE, map |-> m]
        ELSE [changed |-> TRUE, map |-> Store(m, ident, h)]

----------------------------------------------------------------------------
\* validr schema checks (FeedSchema, StorySchema)

\* T.str.maxlen(n): a non-empty string of at most n characters
str_ok(h, n) == h # NoneHtml /\ StrLen(h) >= 1 /\ StrLen(h) <= n

\* T.str.maxlen(n).optional
str_optional_ok(h, n) == h = NoneHtml \/ StrLen(h) <= n

\* T.str.maxlen(n) on the ident
ident_ok(ident, n) == ident.len >= 1 /\ ident.len <= n

\* T.url
url_ok(u) == url_is_valid(u)

\* T.url.optional
url_optional_ok(u) == u \in {NoneV, ""} \/ url_is_valid(u)

\* T.url.invalid_to_default.optional: the validated value
url_soft(u) == IF url_is_valid(u) THEN u ELSE NoneV

\* T.datetime.object.optional
datetime_optional_ok(d) == d \in {NoneV, "dt"}

\* the first field, in schema order, whose check fails; "" when none does
first_invalid(checks) ==
    IF \A i \in 1..Len(checks) : checks[i][2] THEN ""
    ELSE checks[CHOOSE i \in 1..Len(checks) :
                    /\ ~checks[i][2]
                    /\ \A j \in 1..(i - 1) : checks[j][2]][1]

\* validate_feed = compiler.compile(FeedSchema)
feed_invalid_field(f) ==
    first_invalid(<<
        <<"version", f.version >= 1 /\ f.version <= VersionMaxLen>>,
        <<"title", str_ok(f.title, TitleMaxLen)>>,
        <<"url", url_ok(f.url)>>,
        <<"description", str_optional_ok(f.description, DescriptionMaxLen)>>,
        <<"dt_updated", datetime_optional_ok(f.dt_updated)>>,
        <<"author_name", str_optional_ok(f.author_name, AuthorNameMaxLen)>> >>)

validate_feed(f) ==
    [f EXCEPT !.home_url = url_soft(@),
              !.icon_url = url_soft(@),
              !.author_url = url_soft(@),
              !.author_avatar_url = url_soft(@)]

\* validate_story = compiler.compile(StorySchema)
story_invalid_field(s) ==
    first_invalid(<<
        <<"ident", ident_ok(s.ident, IdentMaxLen)>>,
        <<"title", str_ok(s.title, TitleMaxLen)>>,
        <<"url", url_optional_ok(s.url)>>,
        <<"content", str_optional_ok(s.content.html, StrDefaultMaxLen)>>,
        <<"summary", str_optional_ok(s.summary, SummaryMaxLen)>>,
        <<"dt_published", datetime_optional_ok(s.dt_published)>>,
        <<"dt_updated", datetime_optional_ok(s.dt_updated)>>,
        <<"author_name", str_optional_ok(s.author_name, AuthorNameMaxLen)>> >>)

validate_story(s) ==
    [s EXCEPT !.image_url = url_soft(@),
              !.author_url = url_soft(@),
              !.author_avatar_url = url_soft(@)]

----------------------------------------------------------------------------
\* FeedParser

\* x or y on HTML-bearing text: None and '' are falsy
html_or(x, y) == IF x \in {NoneHtml, EmptyStr} THEN y ELSE x

\* an ident read as a URL: only idents of base "u" are URLs
ident_url(ident) ==
    IF ident.len = 0 THEN "" ELSE IF ident.base = "u" THEN "abs" ELSE "bad"

\* a checksum object: the mapping, and the raw content behind each hash
checksum_object(m, rec) == [map |-> m, rec |-> rec]

new_object == checksum_object(checksum_new, <<>>)

\* FeedParser.__init__: the heap after construction and the object that
\* self._checksum refers to.  src = 0 stands for checksum=None, otherwise
\* src is the object passed in.
parser_init_no_copy(h, src) ==
    IF src = 0
    THEN [heap |-> Append(h, new_object), ck |-> Len(h) + 1]
    ELSE [heap |-> h, ck |-> src]

parser_init(h, src) ==
    IF src = 0
    THEN [heap |-> Append(h, new_object), ck |-> Len(h) + 1]
    ELSE [heap |-> Append(h, checksum_object(checksum_copy(h[src].map), h[src].rec)),
          ck |-> Len(h) + 1]

\* FeedParser._check_update_storys, from story i on.  st carries the
\* parser's checksum mapping, the recorded contents, update_storys and, for
\* each story appended, what was recorded for its ident just before.
RECURSIVE check_update_from(_, _, _)
check_update_from(storys, i, st) ==
    IF i > Len(storys) THEN st
    ELSE LET story == storys[i]
             ident == story.ident
             content == html_or(story.content, EmptyStr)
             u == checksum_update(st.map, ident, content)
         IN  check_update_from(storys, i + 1,
                IF u.changed
                THEN [map |-> u.map,
                      rec |-> Store(st.rec, ident, <<story.content>>),
                      update_storys |-> Append(st.update_storys, story),
                      prev |-> Append(st.prev, Lookup(st.rec, ident))]
                ELSE [st EXCEPT !.map = u.map])

check_update_storys_keep_all(obj, storys) ==
    LET st == check_update_from(storys, 1,
                [map |-> obj.map, rec |-> obj.rec,
                 update_storys |-> <<>>, prev |-> <<>>])
    IN  [st EXCEPT !.update_storys = storys,
                   !.prev = [i \in 1..Len(storys) |->
                                Lookup(obj.rec, storys[i].ident)]]

check_update_storys(obj, storys) ==
    check_update_from(storys, 1,
        [map |-> obj.map, rec |-> obj.rec,
         update_storys |-> <<>>, prev |-> <<>>])

\* FeedParser._parse_feed
parse_feed(feed) ==
    LET url == feed.url
    IN  [version |-> feed.version,
         title |-> TextSlice(story_html_to_text(feed.title), TitleMaxLen),
         url |-> url,
         home_url |-> normlize_url(feed.home_url, url),
         icon_url |-> normlize_url(feed.icon_url, url),
         description |->
            TextSlice(story_html_to_text(feed.description), DescriptionMaxLen),
         dt_updated |-> feed.dt_updated,
         author_name |->
            TextSlice(story_html_to_text(feed.author_name), AuthorNameMaxLen),
         author_url |-> normlize_url(feed.author_url, url),
         author_avatar_url |-> normlize_url(feed.author_avatar_url, url)]

\* FeedParser._process_content
process_content(content, link) ==
    LET cleaned == story_html_clean(content)
    IN  process_story_links(
            IF StrLen(cleaned) >= ContentCeiling
            THEN story_html_to_text(cleaned) ELSE cleaned,
            link)

\* FeedParser._parse_story
parse_story(story, feed_url) ==
    LET ident == IdentSlice(story.ident, IdentMaxLen)
        url == normlize_url(
                IF story.url \in {NoneV, ""} THEN ident_url(story.ident)
                ELSE story.url, feed_url)
        valid_url == IF url_is_valid(url) THEN url ELSE NoneV
        base_url == IF valid_url # NoneV THEN valid_url ELSE feed_url
        content == process_content(story.content, base_url)
    IN  [ident |-> ident,
         title |-> TextSlice(story_html_to_text(story.title), TitleMaxLen),
         url |-> valid_url,
         content |-> content,
         summary |-> shorten(story_html_to_text(story_html_clean(story.summary)),
                             SummaryMaxLen),
         has_mathjax |-> story_has_mathjax(content),
         image_url |-> normlize_url(story.image_url, base_url),
         dt_published |-> story.dt_published,
         dt_updated |-> story.dt_updated,
         author_name |->
            TextSlice(story_html_to_text(story.author_name), AuthorNameMaxLen),
         author_url |-> normlize_url(story.author_url, base_url),
         author_avatar_url |-> normlize_url(story.author_avatar_url, base_url)]

\* what parse hands back: a FeedResult, or a raised FeedParserError.  index
\* is the position mark_index reports (0-based), -1 when the feed failed.
NoFeed == <<>>

feed_result(feed, storys) ==
    [kind |-> "ok", feed |-> <<feed>>, storys |-> storys,
     index |-> 0 - 1, field |-> ""]

parser_error(index, field) ==
    [kind |-> "error", feed |-> NoFeed, storys |-> <<>>,
     index |-> index, field |-> field]

\* FeedParser._validate_result
validate_result(feed, storys) ==
    IF feed_invalid_field(feed) # ""
    THEN parser_error(0 - 1, "feed." \o feed_invalid_field(feed))
    ELSE IF \E i \in 1..Len(storys) : story_invalid_field(storys[i]) # ""
    THEN LET i == CHOOSE k \in 1..Len(storys) :
                    /\ story_invalid_field(storys[k]) # ""
                    /\ \A j \in 1..(k - 1) : story_invalid_field(storys[j]) = ""
         IN  parser_error(i - 1, story_invalid_field(storys[i]))
    ELSE feed_result(validate_feed(feed),
                     [i \in 1..Len(storys) |-> validate_story(storys[i])])

\* FeedParser.parse on a parser whose self._checksum is obj
parse(obj, validate, raw) ==
    LET st == check_update_storys(obj, raw.storys)
        feed == parse_feed(raw.feed)
        feed_url == feed.url
        storys == [i \in 1..Len(st.update_storys) |->
                        parse_story(st.update_storys[i], feed_url)]
    IN  [obj |-> checksum_object(st.map, st.rec),
         update_storys |-> st.update_storys,
         prev |-> st.prev,
         result |-> IF validate THEN validate_result(feed, storys)
                    ELSE feed_result(feed, storys)]

----------------------------------------------------------------------------
\* Inputs: raw feeds as the tokenizer hands them over

GoodFeed ==
    [version |-> 5, title |-> Html(0, 5, 0, 0, FALSE), url |-> "abs",
     home_url |-> "rel", icon_url |-> NoneV, description |-> NoneHtml,
     dt_updated |-> "dt", author_name |-> NoneHtml, author_url |-> NoneV,
     author_avatar_url |-> NoneV]

GoodStory ==
    [ident |-> Ident("a", 1), title |-> Html(0, 5, 0, 0, FALSE), url |-> "abs",
     content |-> Html(1, 5, 2, 1, FALSE), summary |-> NoneHtml,
     image_url |-> NoneV, dt_published |-> "dt", dt_updated |-> NoneV,
     author_name |-> NoneHtml, author_url |-> NoneV,
     author_avatar_url |-> NoneV]

Seqs(S, n) == UNION {[1..k -> S] : k \in 0..n}

\* Stories for the refresh cycles: one ident whose content repeats or
\* changes to the empty one, a story of another ident; alone in a feed, a
\* story whose content is missing and one the schema rejects (empty title).
CycleStorys ==
    {GoodStory, [GoodStory EXCEPT !.content = EmptyStr]}

OtherStory == [GoodStory EXCEPT !.ident = Ident("b", 1)]

EdgeStorys ==
    {[GoodStory EXCEPT !.content = NoneHtml],
     [GoodStory EXCEPT !.title = EmptyStr]}

\* feeds of one ident in every order, feeds with the other ident's story
\* before or after (and, from three stories on, between), and the edge
\* stories
CycleRaws ==
    {[feed |-> GoodFeed, storys |-> ss] :
        ss \in Seqs(CycleStorys, MaxStorys)
               \cup {ss \in {s1 \o <<OtherStory>> \o s2 :
                                s1 \in Seqs({GoodStory}, 1),
                                s2 \in Seqs({GoodStory}, 1)} :
                        Len(ss) <= MaxStorys}
               \cup {<<s>> : s \in EdgeStorys}}

\* Stories for the field handling: idents up to and over the schema's
\* length, soft URL fields and dates that do and do not validate, contents
\* whose cleaned length is just under, at and just over the ceiling (the
\* first one longer than the ceiling before cleaning), contents whose plain
\* text is as long as a string may be, one longer, and twice that with
\* markup.
FieldContents ==
    {GoodStory.content,
     Html(2, ContentCeiling - 3, 2, 4, TRUE),
     Html(3, ContentCeiling - 2, 2, 0, FALSE),
     Html(4, ContentCeiling - 1, 2, 0, TRUE)}

FieldStorys ==
    {[GoodStory EXCEPT !.ident = Ident("a", l), !.author_url = u,
                       !.dt_published = d, !.content = c] :
        l \in {0, 1, IdentMaxLen, IdentMaxLen + 1},
        u \in {NoneV, "rel", "bad"},
        d \in {"dt", "baddt"},
        c \in FieldContents}
    \cup {[GoodStory EXCEPT !.url = u, !.image_url = "bad",
                            !.author_avatar_url = "bad", !.dt_updated = d,
                            !.title = t] :
            u \in {NoneV, "rel", "bad"}, d \in {NoneV, "baddt"},
            t \in {GoodStory.title, Html(0, TitleMaxLen + 1, 3, 0, FALSE)}}
    \cup {[GoodStory EXCEPT !.content = c] :
            c \in {Html(6, StrDefaultMaxLen, 0, 0, FALSE),
                   Html(7, StrDefaultMaxLen + 1, 0, 0, FALSE),
                   Html(8, 2 * StrDefaultMaxLen, 2, 1, TRUE)}}
    \cup {[GoodStory EXCEPT !.ident = Ident("u", 1), !.url = ""],
          [GoodStory EXCEPT !.content = NoneHtml,
                            !.summary = Html(5, SummaryMaxLen + 1, 2, 1, FALSE),
                            !.author_name =
                                Html(0, AuthorNameMaxLen + 1, 0, 0, FALSE)]}

FieldFeeds ==
    {GoodFeed,
     [GoodFeed EXCEPT !.url = "bad"],
     [GoodFeed EXCEPT !.home_url = "bad", !.icon_url = "bad",
                      !.author_url = "bad", !.author_avatar_url = "rel"],
     [GoodFeed EXCEPT !.version = 0],
     [GoodFeed EXCEPT !.version = VersionMaxLen + 1],
     [GoodFeed EXCEPT !.dt_updated = "baddt"],
     [GoodFeed EXCEPT !.title = Html(0, TitleMaxLen + 1, 0, 0, FALSE),
                      !.description =
                            Html(0, DescriptionMaxLen + 1, 0, 0, FALSE)],
     [GoodFeed EXCEPT !.title = Html(0, 0, 4, 0, FALSE)]}

\* k valid stories of other idents in front of the story looked at
Padding(k) == [i \in 1..k |-> [GoodStory EXCEPT !.ident = Ident("b", i)]]

FieldRaws ==
    {[feed |-> GoodFeed, storys |-> Padding(k) \o <<s>>] :
        k \in 0..(MaxStorys - 1), s \in FieldStorys}
    \cup {[feed |-> f, storys |-> <<s>>] :
            f \in FieldFeeds,
            s \in {GoodStory, [GoodStory EXCEPT !.author_url = "bad"]}}

----------------------------------------------------------------------------
\* State

NoRaw == [feed |-> GoodFeed, storys |-> <<>>]

NoCall ==
    [parser |-> 0, raw |-> NoRaw, update_storys |-> <<>>, prev |-> <<>>,
     result |-> parser_error(0 - 1, ""), checksum |-> 0,
     alone |-> <<>>, src_map |-> checksum_new, before |-> new_object,
     prior_update |-> <<>>,
     first |-> FALSE, fresh |-> FALSE, chained |-> FALSE, twin |-> FALSE,
     again |-> FALSE]

IdleRead == [pc |-> "idle"]

Init ==
    /\ heap = <<new_object>>        \* the caller's own FeedChecksum()
    /\ parsers = <<>>
    /\ ops = 0
    /\ last = NoCall
    /\ rd = IdleRead
    /\ net = <<>>

\* checksum objects the caller can pass on: its own, and the checksum of
\* every FeedResult it was handed
CallerRefs ==
    {1} \cup {parsers[i].ck : i \in {j \in 1..Len(parsers) : parsers[j].returned}}

\* FeedParser(checksum, validate); src = 0 is FeedParser(None, validate)
Construct(src, validate) ==
    /\ LET r == parser_init(heap, src)
       IN  /\ heap' = r.heap
           /\ parsers' = Append(parsers,
                [src |-> src, ck |-> r.ck, validate |-> validate,
                 \* the constructor argument's mapping at construction
                 snap |-> IF src = 0 THEN checksum_new ELSE heap[src].map,
                 \* the checksum this parser has when nothing but its own
                 \* parse calls touch it
                 solo |-> IF src = 0 THEN new_object ELSE heap[src],
                 nparse |-> 0, returned |-> FALSE])
    /\ ops' = ops + 1
    /\ UNCHANGED <<last, rd, net>>

\* parsers[i].parse(raw)
Parse(i, raw) ==
    LET p == parsers[i]
        r == parse(heap[p.ck], p.validate, raw)
        solo == check_update_storys(p.solo, raw.storys)
        q == last.parser
    IN  /\ heap' = [heap EXCEPT ![p.ck] = r.obj]
        /\ parsers' = [parsers EXCEPT ![i] =
                [@ EXCEPT !.solo = checksum_object(solo.map, solo.rec),
                          !.nparse = @ + 1,
                          !.returned = @ \/ r.result.kind = "ok"]]
        /\ ops' = ops + 1
        /\ last' =
            [parser |-> i, raw |-> raw,
             update_storys |-> r.update_storys, prev |-> r.prev,
             result |-> r.result,
             checksum |-> IF r.result.kind = "ok" THEN p.ck ELSE 0,
             \* what the same call retains when the parser runs alone
             alone |-> solo.update_storys,
             \* the mapping of the constructor's argument before the call
             src_map |-> IF p.src = 0 THEN checksum_new ELSE heap[p.src].map,
             before |-> heap[p.ck],
             \* what the call before this one retained
             prior_update |-> last.update_storys,
             first |-> p.nparse = 0,
             \* first parse of FeedParser() or FeedParser(FeedChecksum())
             fresh |-> p.nparse = 0 /\ p.snap = checksum_new,
             \* same raw feed again, through the checksum the previous
             \* parse returned
             chained |-> /\ q # 0 /\ q # i
                         /\ last.raw = raw
                         /\ last.checksum # 0
                         /\ p.src = last.checksum
                         /\ p.nparse = 0
                         /\ p.snap = heap[p.src].map,
             \* same raw feed again, through another parser built from the
             \* same checksum, the one returned in between not passed on
             twin |-> /\ q # 0 /\ q # i
                      /\ last.raw = raw
                      /\ last.first
                      /\ p.nparse = 0
                      /\ p.src # 0
                      /\ parsers[q].src = p.src
                      /\ parsers[q].snap = p.snap,
             \* same raw feed again, through the same parser
             again |-> q = i /\ last.raw = raw]
        /\ UNCHANGED <<rd, net>>

\* Refresh cycles: parsers built from nothing, from the caller's checksum
\* or from a returned one, parsing in any order
Next ==
    \/ /\ ops < MaxOps
       /\ \E src \in {0} \cup CallerRefs : Construct(src, TRUE)
    \/ /\ ops < MaxOps
       /\ \E i \in 1..Len(parsers), raw \in CycleRaws : Parse(i, raw)

Spec == Init /\ [][Next]_vars

\* Field handling: parsers with and without validation on feeds whose
\* fields are at and beyond what the schemas accept
NextFields ==
    \/ /\ ops < MaxFieldOps
       /\ \E v \in BOOLEAN : Construct(0, v)
    \/ /\ ops < MaxFieldOps
       /\ \E i \in 1..Len(parsers), raw \in FieldRaws : Parse(i, raw)

SpecFields == Init /\ [][NextFields]_vars

----------------------------------------------------------------------------
\* The feed reader (rssant_feedlib.reader, by its contract and its tests)

\* a status: an HTTP-like integer or a sentinel failure kind
Http(code) == [kind |-> "http", code |-> code]

Sentinel(kind) == [kind |-> kind, code |-> 0]

\* the value of the relay's status header: an integer, ERROR, or no header
NoHeader == [kind |-> "absent", code |-> 0]

ErrorMarker == [kind |-> "ERROR", code |-> 0]

\* a query parameter: absent, an integer or the word ERROR
NoParam == [kind |-> "absent", code |-> 0]

StatusCodes == {200, 301, 404, 500, 600}

ErrorCodes == {301, 404, 500}

\* rss_proxy_handler: the relay of the tests.  req is the decoded request
\* body with the target's path and query; the reply is the relay's own
\* status, its status header and the body.
rss_proxy_handler(req) ==
    IF ~(/\ req.token_ok
         /\ req.method \in {NoneV, "POST"}
         /\ req.path = "/not-proxy"
         /\ req.user_agent)
    THEN [status |-> 400, header |-> NoHeader, body |-> "diagnostic"]
    ELSE IF req.error.kind # "absent"
    THEN IF req.error.kind = "ERROR"
         THEN [status |-> 200, header |-> ErrorMarker, body |-> "diagnostic"]
         ELSE [status |-> req.error.code, header |-> NoHeader,
               body |-> "diagnostic"]
    ELSE [status |-> 200,
          header |-> Http(IF req.status.kind = "absent" THEN 200
                          ELSE req.status.code),
          body |-> "content"]

\* ProxyRelayClient: the outcome of a relay reply
relay_outcome_conflated(reply) ==
    IF reply.header.kind = "http"
    THEN [status |-> reply.header, content |-> reply.body]
    ELSE IF reply.header.kind = "ERROR"
    THEN [status |-> Sentinel("RSS_PROXY_ERROR"), content |-> ""]
    ELSE [status |-> Http(reply.status), content |-> reply.body]

relay_outcome(reply) ==
    IF reply.header.kind = "http"
    THEN [status |-> reply.header, content |-> reply.body]
    ELSE [status |-> Sentinel("RSS_PROXY_ERROR"), content |-> ""]

\* AddressGuard: whether the fetch of a resolved address is refused
address_refused_never(address, allow_private_address) == FALSE

address_refused(address, allow_private_address) ==
    address = "private" /\ ~allow_private_address

\* ContentSniffer: whether the declared type is a webpage or feed family
\* (text/plain among them: the relay of the tests answers in text/plain and
\* its payload is returned with allow_non_webpage left false)
is_supported(ctype) == ctype \in {"html", "plain", "rss", "atom", "json"}

\* what the structural markers in the first bytes of a body look like
Families == {"rss", "html", "other"}

\* ContentSniffer: the family of a payload, from the declared type and, when
\* that names no feed format, from the body; a payload always has one
feed_type(ctype, family) ==
    IF ctype \in {"rss", "atom", "json"} THEN ctype
    ELSE IF family = "rss" THEN "rss"
    ELSE IF ctype = "html" \/ family = "html" THEN "html"
    ELSE "other"

NoReply == [status |-> 0, header |-> NoHeader, body |-> ""]

NoResponse ==
    [status |-> Sentinel("none"), content |-> "", encoding |-> NoneV,
     feed_type |-> NoneV]

\* read(url, use_proxy, ...): the call starts.  address is what the URL's
\* host resolves to; has_proxy is whether the reader has a relay configured.
ReadStart(address, use_proxy, allow_private, allow_non_webpage, has_proxy, req) ==
    /\ rd.pc = "idle"
    /\ rd' = [pc |-> "start", address |-> address, use_proxy |-> use_proxy,
              allow_private_address |-> allow_private,
              allow_non_webpage |-> allow_non_webpage,
              has_proxy |-> has_proxy, req |-> req,
              reply |-> NoReply, ctype |-> NoneV, response |-> NoResponse]
    /\ net' = <<>>
    /\ UNCHANGED <<heap, parsers, ops, last>>

\* step 1: with use_proxy and a relay configured the read is handed to the
\* relay client, which posts the request to the relay
ReadViaRelay ==
    /\ rd.pc = "start"
    /\ rd.use_proxy /\ rd.has_proxy
    /\ net' = Append(net, "relay")
    /\ rd' = [rd EXCEPT !.pc = "relay_wait"]
    /\ UNCHANGED <<heap, parsers, ops, last>>

\* the relay answers, its reply declaring a content type over a body of
\* some family; steps 3 to 6 run on the payload of a reply that carries a
\* numeric status
RelayReplies(ctype, family) ==
    /\ rd.pc = "relay_wait"
    /\ LET reply == rss_proxy_handler(rd.req)
           out == relay_outcome(reply)
       IN  rd' = IF out.status.kind # "http"
                 THEN [rd EXCEPT !.pc = "done", !.reply = reply,
                                 !.ctype = ctype,
                                 !.response.status = out.status,
                                 !.response.content = out.content]
                 ELSE IF ~is_supported(ctype) /\ ~rd.allow_non_webpage
                 THEN [rd EXCEPT !.pc = "done", !.reply = reply,
                        !.ctype = ctype,
                        !.response.status =
                            Sentinel("CONTENT_TYPE_NOT_SUPPORT_ERROR")]
                 ELSE [rd EXCEPT !.pc = "done", !.reply = reply,
                        !.ctype = ctype,
                        !.response = [status |-> out.status,
                                      content |-> out.content,
                                      encoding |-> "utf-8",
                                      feed_type |->
                                        feed_type(ctype, family)]]
    /\ UNCHANGED <<heap, parsers, ops, last, net>>

\* step 2: otherwise the address guard runs before anything is sent
ReadDirect ==
    /\ rd.pc = "start"
    /\ ~(rd.use_proxy /\ rd.has_proxy)
    /\ IF rd.address = "unresolvable"
       THEN /\ rd' = [rd EXCEPT !.pc = "done",
                                !.response.status = Sentinel("DNS_ERROR")]
            /\ net' = net
       ELSE IF address_refused(rd.address, rd.allow_private_address)
       THEN /\ rd' = [rd EXCEPT !.pc = "done",
                        !.response.status = Sentinel("PRIVATE_ADDRESS_ERROR")]
            /\ net' = net
       ELSE /\ rd' = [rd EXCEPT !.pc = "direct_wait"]
            /\ net' = Append(net, "target")
    /\ UNCHANGED <<heap, parsers, ops, last>>

\* steps 3 to 6: the target answers with a status and a declared type over
\* a body of some family
TargetReplies(code, ctype, family) ==
    /\ rd.pc = "direct_wait"
    /\ rd' = IF ~is_supported(ctype) /\ ~rd.allow_non_webpage
             THEN [rd EXCEPT !.pc = "done", !.ctype = ctype,
                    !.response.status =
                        Sentinel("CONTENT_TYPE_NOT_SUPPORT_ERROR")]
             ELSE [rd EXCEPT !.pc = "done", !.ctype = ctype,
                    !.response = [status |-> Http(code), content |-> "content",
                                  encoding |-> "utf-8",
                                  feed_type |-> feed_type(ctype, family)]]
    /\ UNCHANGED <<heap, parsers, ops, last, net>>

\* the connection fails or times out
TransportFails ==
    /\ rd.pc \in {"direct_wait", "relay_wait"}
    /\ rd' = [rd EXCEPT !.pc = "done",
                        !.response.status = Sentinel("CONNECTION_ERROR")]
    /\ UNCHANGED <<heap, parsers, ops, last, net>>

\* read returns its FetchResponse
ReadReturn ==
    /\ rd.pc = "done"
    /\ rd' = IdleRead
    /\ net' = <<>>
    /\ UNCHANGED <<heap, parsers, ops, last>>

Requests ==
    {[token_ok |-> t, method |-> NoneV, path |-> "/not-proxy",
      user_agent |-> TRUE, status |-> st, error |-> er] :
        t \in BOOLEAN,
        st \in {NoParam} \cup {Http(c) : c \in StatusCodes},
        er \in {NoParam, ErrorMarker} \cup {Http(c) : c \in ErrorCodes}}

NextRead ==
    \/ \E a \in {"public", "private", "unresolvable"},
          up, ap, an, hp \in BOOLEAN, req \in Requests :
            ReadStart(a, up, ap, an, hp, req)
    \/ ReadViaRelay
    \/ \E ctype \in {"plain", "rss", "png", "csv"}, family \in Families :
            RelayReplies(ctype, family)
    \/ ReadDirect
    \/ \E code \in StatusCodes,
          ctype \in {"html", "plain", "rss", "png", "csv"},
          family \in Families :
            TargetReplies(code, ctype, family)
    \/ TransportFails
    \/ ReadReturn

SpecRead == Init /\ [][NextRead]_vars

----------------------------------------------------------------------------
\* Properties of the checksum cycles

LastParser == parsers[last.parser]

Called == last.parser # 0

\* the content the checksum sees: story['content'] or ''
SeenContent(story) == html_or(story.content, EmptyStr)

\* no ident occurs in the feed with two different contents
NoIdentChanges(storys) ==
    \A i, j \in 1..Len(storys) :
        storys[i].ident = storys[j].ident
            => SeenContent(storys[i]) = SeenContent(storys[j])

\* story i repeats the content of the nearest earlier story of its ident
Repeats(storys, i) ==
    \E j \in 1..(i - 1) :
        /\ storys[j].ident = storys[i].ident
        /\ SeenContent(storys[j]) = SeenContent(storys[i])
        /\ \A k \in (j + 1)..(i - 1) : storys[k].ident # storys[i].ident

RECURSIVE WithoutRepeats(_, _)
WithoutRepeats(storys, i) ==
    IF i = 0 THEN <<>>
    ELSE IF Repeats(storys, i) THEN WithoutRepeats(storys, i - 1)
    ELSE Append(WithoutRepeats(storys, i - 1), storys[i])

\* C1: a parse call, returning or raising, leaves the mapping of the
\* checksum object that was passed to the parser's constructor as it was
\* before the call.
C1_SourceChecksumUnchanged ==
    (Called /\ LastParser.src # 0)
        => heap[LastParser.src].map = last.src_map

\* a parse that raised after advancing the parser's own copy
C1_Witness ==
    /\ Called /\ LastParser.src # 0
    /\ last.result.kind = "error"
    /\ last.update_storys # <<>>
    /\ heap[LastParser.ck].map # heap[LastParser.src].map

\* C2: parsers built from the same checksum do not see each other's
\* updates: each parser's checksum is what its own parse calls made of the
\* constructor's snapshot, and each call retains what it retains when the
\* parser runs alone.
C2_Isolation ==
    /\ \A i \in 1..Len(parsers) : heap[parsers[i].ck].map = parsers[i].solo.map
    /\ Called => last.update_storys = last.alone

\* two parsers built from one checksum have both retained the same story
C2_Witness ==
    /\ Called /\ last.update_storys # <<>>
    /\ \E i \in 1..Len(parsers) :
        /\ i # last.parser
        /\ parsers[i].src = LastParser.src /\ LastParser.src # 0
        /\ parsers[i].snap = LastParser.snap
        /\ parsers[i].nparse > 0
        /\ Lookup(heap[parsers[i].ck].map, last.update_storys[1].ident)
            = content_hash(SeenContent(last.update_storys[1]))

\* a retained story is new, or its content differs from the recorded one
RetainedOnlyIfChanged ==
    \A k \in 1..Len(last.update_storys) :
        \/ last.prev[k] = <<>>
        \/ last.prev[k][1] # last.update_storys[k].content

\* C3 as stated: ..., and parsing the same raw feed again with the returned
\* checksum retains no story.
C3_Original ==
    /\ RetainedOnlyIfChanged
    /\ last.chained => last.update_storys = <<>>

\* C3: along cycles that pass the returned checksum on, a story is retained
\* only if its ident is new or its content differs from the one last
\* recorded for the ident; parsing the same raw feed again with the returned
\* checksum retains no story when no ident occurs in the feed with two
\* different contents.
C3_ReturnedChecksumFilters ==
    /\ RetainedOnlyIfChanged
    /\ (last.chained /\ NoIdentChanges(last.raw.storys))
            => last.update_storys = <<>>

C3_Witness ==
    /\ last.chained
    /\ last.raw.storys # <<>>
    /\ NoIdentChanges(last.raw.storys)
    /\ last.prior_update # <<>>
    /\ last.update_storys = <<>>

\* C4 as stated: the second of two parses of the same raw feed with the
\* same checksum, the returned one not passed on, retains nothing.
C4_Original == last.twin => last.update_storys = <<>>

\* C4: the second of two parsers built from the same checksum retains what
\* the first retained; the second parse of the same feed by one parser
\* retains nothing when no ident occurs in the feed with two different
\* contents.
C4_SecondParse ==
    /\ last.twin => last.update_storys = last.prior_update
    /\ (last.again /\ NoIdentChanges(last.raw.storys))
            => last.update_storys = <<>>

C4_Witness ==
    /\ last.twin
    /\ last.update_storys # <<>>

\* C5 as stated: a parse with a fresh checksum retains every raw story.
C5_Original == last.fresh => last.update_storys = last.raw.storys

\* C5: a parse with a fresh checksum retains, in input order, every story
\* but those that repeat the content of the nearest earlier story of the
\* same ident in the feed.
C5_FreshRetains ==
    last.fresh =>
        last.update_storys = WithoutRepeats(last.raw.storys, Len(last.raw.storys))

C5_Witness ==
    /\ last.fresh
    /\ Len(last.raw.storys) > 1
    /\ last.update_storys = last.raw.storys

----------------------------------------------------------------------------
\* Properties of the field handling

Validating == Called /\ LastParser.validate

Returned == last.result.kind = "ok"

Raised == last.result.kind = "error"

SoftUrlValues == {"abs", NoneV}

SoftDateValues == {"dt", NoneV}

\* a feed field the schema requires is missing or over its length, or the
\* feed URL is no URL
FeedRequiredViolation(f) ==
    \/ f.version < 1 \/ f.version > VersionMaxLen
    \/ f.title = NoneHtml \/ f.title.text = 0
    \/ f.url # "abs"

\* the ident of a story is empty or over its length, or its title is empty
StoryRequiredViolation(story) ==
    \/ story.ident.len = 0 \/ story.ident.len > IdentMaxLen
    \/ story.title = NoneHtml \/ story.title.text = 0

RequiredViolation ==
    \/ FeedRequiredViolation(last.raw.feed)
    \/ \E k \in 1..Len(last.update_storys) :
            StoryRequiredViolation(last.update_storys[k])

\* C8: with validate=true, a retained story whose raw ident is longer than
\* 200 characters makes parse raise a parser error that reports a story
\* index, and no FeedResult is returned.
C8_LongIdentRejected ==
    (/\ Validating
     /\ \E k \in 1..Len(last.update_storys) :
            last.update_storys[k].ident.len > IdentMaxLen)
        => (Raised /\ last.result.index >= 0)

\* C9: with validate=true, soft-optional URL and date fields of the feed
\* and of each story that fail validation come out absent and the record is
\* retained, so parse raises only when a required field (ident, title,
\* version, feed url) is violated.
C9_OnlyRequiredRaise ==
    Validating =>
        /\ Raised => RequiredViolation
        /\ Returned =>
            /\ Len(last.result.storys) = Len(last.update_storys)
            /\ LET f == last.result.feed[1]
               IN  /\ {f.home_url, f.icon_url, f.author_url,
                       f.author_avatar_url} \subseteq SoftUrlValues
                   /\ f.dt_updated \in SoftDateValues
            /\ \A k \in 1..Len(last.result.storys) :
                LET o == last.result.storys[k]
                IN  /\ {o.image_url, o.author_url, o.author_avatar_url}
                            \subseteq SoftUrlValues
                    /\ {o.dt_published, o.dt_updated} \subseteq SoftDateValues

\* the content the claim expects: plain text when the cleaned content is
\* over the ceiling, the cleaned markup otherwise
ExpectedContent(content) ==
    LET cleaned == story_html_clean(content)
    IN  IF StrLen(cleaned) > ContentCeiling
        THEN story_html_to_text(cleaned) ELSE cleaned

\* C10: a retained story's content is downgraded to plain text exactly when
\* its cleaned content exceeds 1024*1024 characters, and keeps its cleaned
\* markup at or below that; either way the story is retained and no error
\* is raised over the content.
C10_DowngradeOverCeiling ==
    /\ (Called /\ Returned) =>
        /\ Len(last.result.storys) = Len(last.update_storys)
        /\ \A k \in 1..Len(last.result.storys) :
            last.result.storys[k].content.html
                = ExpectedContent(last.update_storys[k].content)
    /\ (Called /\ Raised) => last.result.field # "content"

----------------------------------------------------------------------------
\* Properties of the reader

Reading == rd.pc # "idle"

Relayed == rd.use_proxy /\ rd.has_proxy

NoTargetRequest == \A k \in 1..Len(net) : net[k] # "target"

PrivateRefused ==
    /\ rd.response.status = Sentinel("PRIVATE_ADDRESS_ERROR")
    /\ rd.response.content = ""

\* C6 as stated: every read of a URL that resolves to a private address
\* without allow_private_address ends in PRIVATE_ADDRESS_ERROR with empty
\* content, and no request is sent.
C6_Original ==
    (Reading /\ rd.address = "private" /\ ~rd.allow_private_address)
        => /\ NoTargetRequest
           /\ rd.pc = "done" => PrivateRefused

\* C6: a read that is not handed to a relay, of a URL that resolves to a
\* private address, without allow_private_address, ends in
\* PRIVATE_ADDRESS_ERROR with empty content, and at no point of the call has
\* a request been sent.
C6_PrivateAddressRefused ==
    (/\ Reading /\ ~Relayed
     /\ rd.address = "private" /\ ~rd.allow_private_address)
        => /\ NoTargetRequest
           /\ rd.pc = "done" => PrivateRefused

C6_Witness ==
    /\ rd.pc = "done" /\ ~Relayed
    /\ rd.address = "private" /\ ~rd.allow_private_address
    /\ PrivateRefused /\ NoTargetRequest

RelayFailed ==
    \/ rd.reply.header.kind = "ERROR"
    \/ rd.reply.header.kind = "absent" /\ rd.reply.status # 200

\* C7 as stated: on a read through the relay that the relay answered, an
\* integer in the status header is the response's status; the ERROR marker,
\* or an error status of the relay's own without a status header, gives
\* RSS_PROXY_ERROR whatever the status asked for.
C7_Original ==
    (rd.pc = "done" /\ Relayed /\ rd.reply # NoReply) =>
        /\ rd.reply.header.kind = "http"
                => rd.response.status = rd.reply.header
        /\ RelayFailed
                => /\ rd.response.status = Sentinel("RSS_PROXY_ERROR")
                   /\ rd.response.status.kind # "http"

\* C7: on a read through the relay that the relay answered, an integer in
\* the status header is the response's status when the payload's type is
\* supported or allow_non_webpage is set, and otherwise the read ends in
\* CONTENT_TYPE_NOT_SUPPORT_ERROR with empty content; the ERROR marker, or
\* an error status of the relay's own without a status header, gives
\* RSS_PROXY_ERROR whatever the status asked for.
C7_RelayStatus ==
    (rd.pc = "done" /\ Relayed /\ rd.reply # NoReply) =>
        /\ rd.reply.header.kind = "http" =>
                IF is_supported(rd.ctype) \/ rd.allow_non_webpage
                THEN rd.response.status = rd.reply.header
                ELSE /\ rd.response.status =
                            Sentinel("CONTENT_TYPE_NOT_SUPPORT_ERROR")
                     /\ rd.response.content = ""
        /\ RelayFailed
                => /\ rd.response.status = Sentinel("RSS_PROXY_ERROR")
                   /\ rd.response.status.kind # "http"
                   /\ rd.response.content = ""

\* the relay failed with a status of its own while a status was asked for
C7_Witness ==
    /\ rd.pc = "done" /\ Relayed
    /\ rd.reply.header.kind = "absent" /\ rd.reply.status = 500
    /\ rd.req.status.kind = "http"
    /\ rd.response.status = Sentinel("RSS_PROXY_ERROR")

====
